---- MODULE Spec2Model ----
(***************************************************************************)
(* Model of rainfall/color.py: the color parser (rgba), the HSV view       *)
(* (hsla), the formatter (name), gradient interpolation (gradient),        *)
(* contrast, brighten, the distinct palette (distinct) and the theme       *)
(* palette lookup (_MSO).                                                  *)
(*                                                                         *)
(* Strings are sequences of one-character strings.  Python floats are      *)
(* IEEE 754 doubles, computed bit for bit.  The module-level dict          *)
(* _colornames and the list _distincts are the only mutable objects shared *)
(* between calls and are the state variables colornames and distincts.     *)
(***************************************************************************)
EXTENDS Integers, Sequences, FiniteSets, TLC

VARIABLES colornames, distincts, last, threads

vars == <<colornames, distincts, last, threads>>

(***************************************************************************)
(* Python's float: IEEE 754 binary64, every operation rounded to nearest,  *)
(* ties to even.  A float is [neg, hi, lo, exp] and stands for             *)
(*     (-1)^neg * (hi * 2^28 + lo) * 2^exp                                 *)
(* with 2^52 <= hi * 2^28 + lo < 2^53, or hi = lo = exp = 0 for a zero.    *)
(* Infinities, NaN and subnormal numbers are not represented.  A natural   *)
(* number wider than a machine word is a `wide`: four limbs of 28 bits,    *)
(* the least significant first.                                            *)
(***************************************************************************)
Base == 2^28
HalfBase == 2^14
Pow2 == [k \in 0..30 |-> 2^k]

WideOf(n) == <<n % Base, n \div Base, 0, 0>>
Limb(w, i) == IF i >= 1 /\ i <= 4 THEN w[i] ELSE 0

\* the number of bits of a limb, and of a wide
LimbBits(x) == Cardinality({k \in 0..27 : Pow2[k] <= x})
BitLength(w) ==
    IF w[4] # 0 THEN 84 + LimbBits(w[4])
    ELSE IF w[3] # 0 THEN 56 + LimbBits(w[3])
    ELSE IF w[2] # 0 THEN 28 + LimbBits(w[2])
    ELSE LimbBits(w[1])

\* bit i of w, the least significant being bit 0
Bit(w, i) == (w[(i \div 28) + 1] \div Pow2[i % 28]) % 2

\* whether w has a one among its t lowest bits
LowNonZero(w, t) ==
    \E i \in 1..4 : \/ i - 1 < t \div 28 /\ w[i] # 0
                    \/ i - 1 = t \div 28 /\ w[i] % Pow2[t % 28] # 0

ShiftRightBy(w, a, b) ==
    [i \in 1..4 |-> (Limb(w, i + a) \div Pow2[b])
                    + (Limb(w, i + a + 1) % Pow2[b]) * Pow2[28 - b]]
\* w \div 2^s
ShiftRight(w, s) == ShiftRightBy(w, s \div 28, s % 28)

ShiftLeftBy(w, a, b) ==
    [i \in 1..4 |-> (Limb(w, i - a) % Pow2[28 - b]) * Pow2[b]
                    + (Limb(w, i - a - 1) \div Pow2[28 - b])]
\* w * 2^s, which must fit in four limbs
ShiftLeft(w, s) == ShiftLeftBy(w, s \div 28, s % 28)

RECURSIVE Carry(_, _, _)
Carry(a, b, i) == IF i = 0 THEN 0 ELSE (a[i] + b[i] + Carry(a, b, i - 1)) \div Base
WideAdd(a, b) == [i \in 1..4 |-> (a[i] + b[i] + Carry(a, b, i - 1)) % Base]

RECURSIVE Borrow(_, _, _)
Borrow(a, b, i) ==
    IF i = 0 THEN 0 ELSE IF a[i] - b[i] - Borrow(a, b, i - 1) < 0 THEN 1 ELSE 0
\* a - b for a >= b
WideSub(a, b) == [i \in 1..4 |-> (a[i] - b[i] - Borrow(a, b, i - 1)) % Base]

WideLess(a, b) == \E i \in 1..4 : a[i] < b[i] /\ \A j \in (i + 1)..4 : a[j] = b[j]

\* the eight digits of w in base 2^14
Digits(w) ==
    [k \in 1..8 |-> IF k % 2 = 1 THEN w[(k + 1) \div 2] % HalfBase
                    ELSE w[k \div 2] \div HalfBase]
FromDigits(d) == [i \in 1..4 |-> d[(2 * i) - 1] + (HalfBase * d[2 * i])]

Term(a, b, k, j) == IF k - j + 1 >= 1 THEN a[k - j + 1] * b[j] ELSE 0
Column(a, b, k) == Term(a, b, k, 1) + Term(a, b, k, 2) + Term(a, b, k, 3) + Term(a, b, k, 4)

RECURSIVE Carried(_, _, _)
Carried(cols, k, carry) ==
    IF k > 8 THEN <<>>
    ELSE <<(cols[k] + carry) % HalfBase>>
         \o Carried(cols, k + 1, (cols[k] + carry) \div HalfBase)

WideMulDigits(a, b) == FromDigits(Carried([k \in 1..8 |-> Column(a, b, k)], 1, 0))
\* a * b for b < 2^56, which must fit in four limbs
WideMul(a, b) == WideMulDigits(Digits(a), Digits(b))

\* whether ah * 2^28 + al <= bh * 2^28 + bl
PairLe(ah, al, bh, bl) == ah < bh \/ (ah = bh /\ al <= bl)

\* c + 1 if (c + 1) * d <= r, else c
DigitFrom(rh, rl, dh, dl, c) ==
    IF PairLe(((c + 1) * dh) + (((c + 1) * dl) \div Base), ((c + 1) * dl) % Base, rh, rl)
    THEN c + 1 ELSE c

\* r \div d for r < 8 * d and dh >= 2^24: rh \div (dh + 1) is that or one
\* less
DigitOf(rh, rl, dh, dl) == DigitFrom(rh, rl, dh, dl, rh \div (dh + 1))

RECURSIVE DivLoop(_, _, _, _, _, _, _, _, _)
\* r - c * d, and c the next digit of the quotient
DivTake(rh, rl, fh, fl, dh, dl, qh, ql, n, c) ==
    DivLoop(rh - ((c * dh) + ((c * dl) \div Base))
               - (IF rl < (c * dl) % Base THEN 1 ELSE 0),
            (rl - ((c * dl) % Base)) % Base,
            fh, fl, dh, dl, qh, ql + c, n - 1)

DivStep(rh, rl, fh, fl, dh, dl, qh, ql, n) ==
    DivTake(rh, rl, fh, fl, dh, dl, qh, ql, n, DigitOf(rh, rl, dh, dl))

\* long division, three bits at a time: r the remainder, f the 57 bits of
\* the dividend still to bring down, d the divisor, q the quotient so far
DivLoop(rh, rl, fh, fl, dh, dl, qh, ql, n) ==
    IF n = 0 THEN [q |-> <<ql, qh % Base, qh \div Base, 0>>, sticky |-> rh # 0 \/ rl # 0]
    ELSE DivStep((8 * rh) + (rl \div Pow2[25]),
                 (8 * (rl % Pow2[25])) + (fh \div Pow2[26]),
                 (8 * (fh % Pow2[26])) + (fl \div Pow2[25]),
                 8 * (fl % Pow2[25]),
                 dh, dl, (8 * qh) + (ql \div Pow2[25]), 8 * (ql % Pow2[25]), n)

\* [q, sticky]: q = n \div d and whether a remainder is left, for n of
\* 109 bits and d = dh * 2^28 + dl of 53 bits
WideDiv(n, dh, dl) ==
    DivLoop(n[4] \div 2, ((n[4] % 2) * Pow2[27]) + (n[3] \div 2),
            ((n[3] % 2) * Base) + n[2], n[1], dh, dl, 0, 0, 19)

FZero(neg) == [neg |-> neg, hi |-> 0, lo |-> 0, exp |-> 0]
IsZero(x) == x.hi = 0
Mant(x) == <<x.lo, x.hi, 0, 0>>
Neg(x) == [x EXCEPT !.neg = ~x.neg]

\* the float of a mantissa m of exactly 53 bits
Exact(neg, m, e) == [neg |-> neg, hi |-> m[2], lo |-> m[1], exp |-> e]

\* the float of m + 1
RoundedUp(neg, m, e) ==
    IF m[1] = Base - 1
    THEN IF m[2] = Pow2[25] - 1
         THEN [neg |-> neg, hi |-> Pow2[24], lo |-> 0, exp |-> e + 1]
         ELSE [neg |-> neg, hi |-> m[2] + 1, lo |-> 0, exp |-> e]
    ELSE [neg |-> neg, hi |-> m[2], lo |-> m[1] + 1, exp |-> e]

\* w * 2^e, of which s bits are cut off
RoundShifted(neg, w, sticky, e, s) ==
    IF Bit(w, s - 1) = 1 /\ (sticky \/ LowNonZero(w, s - 1) \/ Bit(w, s) = 1)
    THEN RoundedUp(neg, ShiftRight(w, s), e + s)
    ELSE Exact(neg, ShiftRight(w, s), e + s)

RoundLength(neg, w, sticky, e, len) ==
    IF len = 0 THEN FZero(neg)
    ELSE IF len <= 53 THEN Exact(neg, ShiftLeft(w, 53 - len), e - (53 - len))
    ELSE RoundShifted(neg, w, sticky, e, len - 53)

\* the float nearest to (-1)^neg * (w + t) * 2^e, where 0 < t < 1 if
\* sticky and t = 0 otherwise; sticky only with w of more than 54 bits
Round(neg, w, sticky, e) == RoundLength(neg, w, sticky, e, BitLength(w))

\* float(n) for an int n with |n| < 2^31
FromInt(n) == Round(n < 0, WideOf(IF n < 0 THEN -n ELSE n), FALSE, 0)

MagLess(x, y) ==
    \/ x.exp < y.exp
    \/ x.exp = y.exp /\ (x.hi < y.hi \/ (x.hi = y.hi /\ x.lo < y.lo))

\* x < y
FloatLess(x, y) ==
    IF IsZero(x) THEN ~IsZero(y) /\ ~y.neg
    ELSE IF IsZero(y) THEN x.neg
    ELSE IF x.neg # y.neg THEN x.neg
    ELSE IF x.neg THEN MagLess(y, x) ELSE MagLess(x, y)

\* x == y
FloatEq(x, y) == (IsZero(x) /\ IsZero(y)) \/ x = y
\* x <= y
FloatLe(x, y) == FloatLess(x, y) \/ FloatEq(x, y)

AddWide(an, a, bn, b, e) ==
    IF an = bn THEN Round(an, WideAdd(a, b), FALSE, e)
    ELSE IF a = b THEN FZero(FALSE)
    ELSE IF WideLess(a, b) THEN Round(bn, WideSub(b, a), FALSE, e)
    ELSE Round(an, WideSub(a, b), FALSE, e)

\* big + small for big.exp - small.exp = d >= 0; beyond 55 bits the small
\* one is less than a quarter of the last bit of the big one
AddAligned(big, small, d) ==
    IF d >= 56 THEN big
    ELSE AddWide(big.neg, ShiftLeft(Mant(big), d), small.neg, Mant(small), small.exp)

\* x + y
FloatAdd(x, y) ==
    IF IsZero(x) THEN (IF IsZero(y) THEN FZero(x.neg /\ y.neg) ELSE y)
    ELSE IF IsZero(y) THEN x
    ELSE IF x.exp >= y.exp THEN AddAligned(x, y, x.exp - y.exp)
    ELSE AddAligned(y, x, y.exp - x.exp)

\* x - y
FloatSub(x, y) == FloatAdd(x, Neg(y))

\* x * y
FloatMul(x, y) ==
    IF IsZero(x) \/ IsZero(y) THEN FZero(x.neg # y.neg)
    ELSE Round(x.neg # y.neg, WideMul(Mant(x), Mant(y)), FALSE, x.exp + y.exp)

RoundQuotient(neg, qs, e) == Round(neg, qs.q, qs.sticky, e)

\* x / y for y # 0
FloatDiv(x, y) ==
    IF IsZero(x) THEN FZero(x.neg # y.neg)
    ELSE RoundQuotient(x.neg # y.neg, WideDiv(ShiftLeft(Mant(x), 56), y.hi, y.lo),
                       x.exp - y.exp - 56)

\* the float nearest to n / d * 2^e for n of 109 bits and d of 53 bits
RatioShifted(n, d, e) == RoundQuotient(FALSE, WideDiv(n, d[2], d[1]), e)
\* the same with n shifted by sn bits to 109 and d by sd bits to 53
RatioAt(n, d, e, sn, sd) == RatioShifted(ShiftLeft(n, sn), ShiftLeft(d, sd), e - sn + sd)
\* the float nearest to n / d * 2^e for wides n # 0 and 0 < d < 2^53
WideRatio(n, d, e) == RatioAt(n, d, e, 109 - BitLength(n), 53 - BitLength(d))

\* the float nearest to n/d, as Python reads a literal: ints |n| and d > 0
\* below 2^31
F(n, d) == FloatDiv(FromInt(n), FromInt(d))

Zero == FZero(FALSE)
One == FromInt(1)

\* int(x) for |x| < 2^31: the fraction is cut off
IntOfWide(w) == w[1] + (Base * w[2])
Trunc(x) ==
    IF IsZero(x) \/ x.exp <= -53 THEN 0
    ELSE IF x.neg THEN -IntOfWide(ShiftRight(Mant(x), -x.exp))
    ELSE IntOfWide(ShiftRight(Mant(x), -x.exp))

\* math.fmod(x, 1.0): the fraction of x with the sign of x, which is exact
Fraction(x) ==
    IF IsZero(x) \/ x.exp <= -53 THEN x
    ELSE IF x.exp >= 0 THEN FZero(x.neg)
    ELSE Round(x.neg, WideSub(Mant(x), ShiftLeft(ShiftRight(Mant(x), -x.exp), -x.exp)),
               FALSE, x.exp)

\* the rest of float_rem: a zero is +0.0, a negative fraction gets 1.0 added
Mod1Of(f) ==
    IF IsZero(f) THEN Zero ELSE IF f.neg THEN FloatAdd(f, One) ELSE f
\* x % 1.0
Mod1(x) == Mod1Of(Fraction(x))

FloatMax(x, y) == IF FloatLess(x, y) THEN y ELSE x
FloatMin(x, y) == IF FloatLess(y, x) THEN y ELSE x

\* 0 if v < 0 else 1 if v > 1 else v
Clamp(v) == IF FloatLess(v, Zero) THEN Zero ELSE IF FloatLess(One, v) THEN One ELSE v

(***************************************************************************)
(* Characters and the conversions int(s, 16) and float(s).                 *)
(***************************************************************************)
HexDigits == <<"0", "1", "2", "3", "4", "5", "6", "7", "8", "9",
               "a", "b", "c", "d", "e", "f">>
UpperHex == <<"0", "1", "2", "3", "4", "5", "6", "7", "8", "9",
              "A", "B", "C", "D", "E", "F">>
DecDigits == {"0", "1", "2", "3", "4", "5", "6", "7", "8", "9"}
\* the characters int() skips around a literal; the last is \x0b
Whitespace == {" ", "\t", "\n", "\r", "\f", ""}

IsHexDigit(c) == \E i \in 1..16 : HexDigits[i] = c \/ UpperHex[i] = c
HexVal(c) == (CHOOSE i \in 1..16 : HexDigits[i] = c \/ UpperHex[i] = c) - 1
DecVal(c) == HexVal(c)

RECURSIVE LStrip(_)
LStrip(s) == IF Len(s) > 0 /\ Head(s) \in Whitespace THEN LStrip(Tail(s)) ELSE s
RECURSIVE RStrip(_)
RStrip(s) ==
    IF Len(s) > 0 /\ s[Len(s)] \in Whitespace
    THEN RStrip(SubSeq(s, 1, Len(s) - 1)) ELSE s

RECURSIVE HexNum(_)
HexNum(s) == IF Len(s) = 0 THEN 0
             ELSE 16 * HexNum(SubSeq(s, 1, Len(s) - 1)) + HexVal(s[Len(s)])

\* the digits of int(s, 16) after the sign: they must be hex digits
HexIntBody(body, negative) ==
    IF Len(body) > 0 /\ \A i \in 1..Len(body) : IsHexDigit(body[i])
    THEN [ok |-> TRUE, val |-> IF negative THEN -HexNum(body) ELSE HexNum(body)]
    ELSE [ok |-> FALSE, val |-> 0]

\* int(s, 16) after the whitespace: one sign is allowed
HexIntSigned(t) ==
    IF Len(t) > 0 /\ t[1] \in {"+", "-"}
    THEN HexIntBody(Tail(t), t[1] = "-")
    ELSE HexIntBody(t, FALSE)

\* int(s, 16) for a slice s of at most two characters: surrounding
\* whitespace is stripped, one sign is allowed, the rest must be hex
\* digits.  The result is [ok, val].
HexInt(s) == HexIntSigned(RStrip(LStrip(s)))

RECURSIVE DecWide(_)
\* the digits s read as a natural number of at most 32 digits
DecWide(s) ==
    IF Len(s) = 0 THEN WideOf(0)
    ELSE WideAdd(WideMul(DecWide(SubSeq(s, 1, Len(s) - 1)), WideOf(10)),
                 WideOf(DecVal(s[Len(s)])))

RECURSIVE Pow5(_)
\* 5^k for k <= 22
Pow5(k) == IF k = 0 THEN WideOf(1) ELSE WideMul(Pow5(k - 1), WideOf(5))

\* the float nearest to n / 10^k
DecimalOf(n, k) ==
    IF n = WideOf(0) THEN Zero
    ELSE IF k = 0 THEN Round(FALSE, n, FALSE, 0)
    ELSE WideRatio(n, Pow5(k), -k)

\* the value of the digits `whole` . `frac`: at most 32 digits, at most
\* 22 of them after the point
FloatOf(whole, frac) ==
    [ok |-> TRUE, val |-> DecimalOf(DecWide(whole \o frac), Len(frac))]

\* float(s) given where its points and its digits are
FloatAt(s, dots, digs) ==
    IF digs # {} /\ Cardinality(dots) <= 1 /\ dots \cup digs = 1..Len(s)
    THEN IF dots = {} THEN FloatOf(s, <<>>)
         ELSE FloatOf(SubSeq(s, 1, (CHOOSE i \in dots : TRUE) - 1),
                      SubSeq(s, (CHOOSE i \in dots : TRUE) + 1, Len(s)))
    ELSE [ok |-> FALSE, val |-> Zero]

\* float(s) for a token s over [0-9.%]: digits with at most one point and
\* at least one digit.  The result is [ok, val].
PyFloat(s) ==
    FloatAt(s, {i \in 1..Len(s) : s[i] = "."}, {i \in 1..Len(s) : s[i] \in DecDigits})

StartsWith(s, p) == Len(s) >= Len(p) /\ SubSeq(s, 1, Len(p)) = p

\* the least of a set of indexes, or `none` for the empty set
Least(S, none) == IF S = {} THEN none ELSE CHOOSE i \in S : \A j \in S : i <= j

\* the text of s after position `first` up to the next '('
UpToParen(s, first) ==
    SubSeq(s, first + 1,
           Least({i \in 1..Len(s) : s[i] = "(" /\ i > first}, Len(s) + 1) - 1)

\* color.split('(')[1]: the text between the first and the second '('
AfterParen(s) == UpToParen(s, Least({i \in 1..Len(s) : s[i] = "("}, 0))

TokenChars == DecDigits \cup {".", "%"}

\* re.findall(r'[0-9\.%]+', s): the maximal runs of token characters
RECURSIVE FindAll(_, _)
FindAll(s, cur) ==
    IF Len(s) = 0 THEN (IF Len(cur) > 0 THEN <<cur>> ELSE <<>>)
    ELSE IF Head(s) \in TokenChars THEN FindAll(Tail(s), Append(cur, Head(s)))
    ELSE (IF Len(cur) > 0 THEN <<cur>> ELSE <<>>) \o FindAll(Tail(s), <<>>)

(***************************************************************************)
(* The module's tables.                                                    *)
(***************************************************************************)
\* the keys of _colornames in source order
ColorNameOrder ==
    <<<<"b", "l", "a", "c", "k">>,
      <<"s", "i", "l", "v", "e", "r">>,
      <<"g", "r", "a", "y">>,
      <<"w", "h", "i", "t", "e">>,
      <<"m", "a", "r", "o", "o", "n">>,
      <<"r", "e", "d">>,
      <<"p", "u", "r", "p", "l", "e">>,
      <<"f", "u", "c", "h", "s", "i", "a">>,
      <<"g", "r", "e", "e", "n">>,
      <<"l", "i", "m", "e">>,
      <<"o", "l", "i", "v", "e">>,
      <<"y", "e", "l", "l", "o", "w">>,
      <<"n", "a", "v", "y">>,
      <<"b", "l", "u", "e">>,
      <<"t", "e", "a", "l">>,
      <<"a", "q", "u", "a">>>>

\* the values of _colornames in the same order
ColorNameRGB ==
    <<<<0, 0, 0>>,
      <<192, 192, 192>>,
      <<128, 128, 128>>,
      <<255, 255, 255>>,
      <<128, 0, 0>>,
      <<255, 0, 0>>,
      <<128, 0, 128>>,
      <<255, 0, 255>>,
      <<0, 128, 0>>,
      <<0, 255, 0>>,
      <<128, 128, 0>>,
      <<255, 255, 0>>,
      <<0, 0, 128>>,
      <<0, 0, 255>>,
      <<0, 128, 128>>,
      <<0, 255, 255>>>>

NameIndex(color) == CHOOSE i \in 1..Len(ColorNameOrder) : ColorNameOrder[i] = color

\* _colornames as first built: a dict from name to a three-element list
ColorNames0 ==
    [c \in {ColorNameOrder[i] : i \in 1..Len(ColorNameOrder)} |->
        [i \in 1..3 |-> FromInt(ColorNameRGB[NameIndex(c)][i])]]

Distincts0 ==
    <<<<"#", "1", "f", "7", "7", "b", "4">>,
      <<"#", "a", "e", "c", "7", "e", "8">>,
      <<"#", "f", "f", "7", "f", "0", "e">>,
      <<"#", "f", "f", "b", "b", "7", "8">>,
      <<"#", "2", "c", "a", "0", "2", "c">>,
      <<"#", "9", "8", "d", "f", "8", "a">>,
      <<"#", "d", "6", "2", "7", "2", "8">>,
      <<"#", "f", "f", "9", "8", "9", "6">>,
      <<"#", "9", "4", "6", "7", "b", "d">>,
      <<"#", "c", "5", "b", "0", "d", "5">>,
      <<"#", "8", "c", "5", "6", "4", "b">>,
      <<"#", "c", "4", "9", "c", "9", "4">>,
      <<"#", "e", "3", "7", "7", "c", "2">>,
      <<"#", "f", "7", "b", "6", "d", "2">>,
      <<"#", "7", "f", "7", "f", "7", "f">>,
      <<"#", "c", "7", "c", "7", "c", "7">>,
      <<"#", "b", "c", "b", "d", "2", "2">>,
      <<"#", "d", "b", "d", "b", "8", "d">>,
      <<"#", "1", "7", "b", "e", "c", "f">>,
      <<"#", "9", "e", "d", "a", "e", "5">>>>

\* a Python number: an int, or the float nearest to n/d
PyInt(n) == [int |-> TRUE, val |-> FromInt(n)]
PyFloatOf(n, d) == [int |-> FALSE, val |-> F(n, d)]

RYG ==
    <<<<PyFloatOf(0, 2), <<"#", "f", "f", "0", "0", "0", "0">>>>,
      <<PyFloatOf(1, 2), <<"#", "f", "f", "f", "f", "0", "0">>>>,
      <<PyFloatOf(2, 2), <<"#", "0", "0", "f", "f", "0", "0">>>>>>

RWG_1 ==
    <<<<PyFloatOf(-2, 2), <<"#", "f", "f", "0", "0", "0", "0">>>>,
      <<PyFloatOf(0, 2), <<"#", "f", "f", "f", "f", "f", "f">>>>,
      <<PyFloatOf(2, 2), <<"#", "0", "0", "f", "f", "0", "0">>>>>>

Greens ==
    <<<<PyFloatOf(0, 2), <<"#", "F", "7", "F", "C", "F", "5">>>>,
      <<PyFloatOf(1, 2), <<"#", "7", "4", "C", "4", "7", "6">>>>,
      <<PyFloatOf(2, 2), <<"#", "0", "0", "4", "4", "1", "B">>>>>>

Office ==
    <<<<"#", "4", "f", "8", "1", "b", "d">>,
      <<"#", "c", "0", "5", "0", "4", "d">>,
      <<"#", "9", "b", "b", "b", "5", "9">>,
      <<"#", "8", "0", "6", "4", "a", "2">>,
      <<"#", "4", "b", "a", "c", "c", "6">>,
      <<"#", "f", "7", "9", "6", "4", "6">>,
      <<"#", "e", "e", "e", "c", "e", "1">>,
      <<"#", "1", "f", "4", "9", "7", "d">>,
      <<"#", "f", "f", "f", "f", "f", "f">>,
      <<"#", "0", "0", "0", "0", "0", "0">>>>

Adjacency ==
    <<<<"#", "A", "9", "A", "5", "7", "C">>,
      <<"#", "9", "C", "B", "E", "B", "D">>,
      <<"#", "D", "2", "C", "B", "6", "C">>,
      <<"#", "9", "5", "A", "3", "9", "D">>,
      <<"#", "C", "8", "9", "F", "5", "D">>,
      <<"#", "B", "1", "A", "0", "8", "9">>,
      <<"#", "D", "F", "D", "C", "B", "7">>,
      <<"#", "6", "7", "5", "E", "4", "7">>,
      <<"#", "F", "F", "F", "F", "F", "F">>,
      <<"#", "2", "F", "2", "B", "2", "0">>,
      <<"#", "D", "2", "5", "8", "1", "4">>,
      <<"#", "8", "4", "9", "A", "0", "A">>>>

\* the keys of _MSO._lookup and the slot each one names
LookupOrder ==
    <<<<"a", "c", "c", "e", "n", "t", "_", "1">>,
      <<"a", "c", "c", "e", "n", "t", "_", "2">>,
      <<"a", "c", "c", "e", "n", "t", "_", "3">>,
      <<"a", "c", "c", "e", "n", "t", "_", "4">>,
      <<"a", "c", "c", "e", "n", "t", "_", "5">>,
      <<"a", "c", "c", "e", "n", "t", "_", "6">>,
      <<"l", "i", "g", "h", "t", "_", "2">>,
      <<"d", "a", "r", "k", "_", "2">>,
      <<"l", "i", "g", "h", "t", "_", "1">>,
      <<"d", "a", "r", "k", "_", "1">>>>

LookupIndex == <<0, 1, 2, 3, 4, 5, 6, 7, 8, 9>>

(***************************************************************************)
(* colorsys.hsv_to_rgb and colorsys.rgb_to_hsv, as rgba, hsla and brighten *)
(* call them.                                                              *)
(***************************************************************************)
\* the return statements of hsv_to_rgb, by i % 6
HsvPick(k, v, p, q, t) ==
    CASE k = 0 -> <<v, t, p>>
      [] k = 1 -> <<q, v, p>>
      [] k = 2 -> <<p, v, t>>
      [] k = 3 -> <<p, q, v>>
      [] k = 4 -> <<t, p, v>>
      [] k = 5 -> <<v, p, q>>

\* p = v*(1.0 - s), q = v*(1.0 - s*f), t = v*(1.0 - s*(1.0 - f))
HsvMix(i, f, s, v) ==
    HsvPick(i % 6, v,
            FloatMul(v, FloatSub(One, s)),
            FloatMul(v, FloatSub(One, FloatMul(s, f))),
            FloatMul(v, FloatSub(One, FloatMul(s, FloatSub(One, f)))))

\* f = (h*6.0) - i
HsvFraction(h6, i, s, v) == HsvMix(i, FloatSub(h6, FromInt(i)), s, v)

\* i = int(h*6.0)
HsvSector(h6, s, v) == HsvFraction(h6, Trunc(h6), s, v)

hsv_to_rgb(h, s, v) ==
    IF IsZero(s) THEN <<v, v, v>> ELSE HsvSector(FloatMul(h, FromInt(6)), s, v)

\* h before it is divided by 6
HueOf(r, g, maxc, rc, gc, bc) ==
    IF FloatEq(r, maxc) THEN FloatSub(bc, gc)
    ELSE IF FloatEq(g, maxc) THEN FloatSub(FloatAdd(FromInt(2), rc), bc)
    ELSE FloatSub(FloatAdd(FromInt(4), gc), rc)

HsvOfChroma(r, g, b, maxc, rangec) ==
    <<Mod1(FloatDiv(HueOf(r, g, maxc, FloatDiv(FloatSub(maxc, r), rangec),
                          FloatDiv(FloatSub(maxc, g), rangec),
                          FloatDiv(FloatSub(maxc, b), rangec)),
                    FromInt(6))),
      FloatDiv(rangec, maxc), maxc>>

HsvOfRange(r, g, b, maxc, minc) ==
    IF FloatEq(minc, maxc) THEN <<Zero, Zero, maxc>>
    ELSE HsvOfChroma(r, g, b, maxc, FloatSub(maxc, minc))

rgb_to_hsv(r, g, b) ==
    HsvOfRange(r, g, b, FloatMax(FloatMax(r, g), b), FloatMin(FloatMin(r, g), b))

(***************************************************************************)
(* rgba(color): the parser.  A call's outcome is [kind, value]: kind "ok"  *)
(* with the returned 4-tuple, or the exception raised: "InvalidColor" for  *)
(* ValueError('<color>: invalid color'), "ValueError" for the ValueError   *)
(* of int() or float() on text that is no number, "IndexError" for a list  *)
(* index out of range.                                                     *)
(***************************************************************************)
Ok(v) == [kind |-> "ok", value |-> v]
Raise(k) == [kind |-> k, value |-> <<>>]

\* n / 255. and n / 15. for every int n that int(s, 16) makes of at most
\* two characters
Quotients == [d \in {15, 255} |-> [n \in -15..255 |-> F(n, d)]]

\* the list of line 198 or 200 from the three int() results
HexListOf(r, g, b, divisor) ==
    IF r.ok /\ g.ok /\ b.ok
    THEN [ok |-> TRUE, val |-> <<Quotients[divisor][r.val], Quotients[divisor][g.val],
                                 Quotients[divisor][b.val]>>]
    ELSE [ok |-> FALSE, val |-> <<>>]

\* the divisors 255 and 15 taken one for the other
HexListOtherDivisor(slices, divisor) ==
    HexListOf(HexInt(slices[1]), HexInt(slices[2]), HexInt(slices[3]), 270 - divisor)

\* the list built at line 198 (or 200, with divisor 15) from text slices
HexList(slices, divisor) ==
    HexListOf(HexInt(slices[1]), HexInt(slices[2]), HexInt(slices[3]), divisor)

\* a token ending in '%': float(v[:-1]) / 100
Percent(f) ==
    [ok |-> f.ok, val |-> IF f.ok THEN FloatDiv(f.val, FromInt(100)) ELSE Zero]

\* any other token at 0-based index i; hue is TRUE in the hsl loop
Plain(i, f, hue) ==
    IF ~f.ok THEN [ok |-> FALSE, val |-> Zero]
    ELSE IF hue
    THEN [ok |-> TRUE,
          val |-> IF i = 0 THEN Mod1(FloatDiv(f.val, FromInt(360))) ELSE f.val]
    ELSE [ok |-> TRUE, val |-> IF i < 3 THEN FloatDiv(f.val, FromInt(255)) ELSE f.val]

\* one step of the loops at lines 205-211 and 214-220: the number that
\* token v at 0-based index i appends
Component(i, v, hue) ==
    IF v[Len(v)] = "%" THEN Percent(PyFloat(SubSeq(v, 1, Len(v) - 1)))
    ELSE Plain(i, PyFloat(v), hue)

\* the list after every token, or the first float() failure
AllOk(c) ==
    IF \A i \in 1..Len(c) : c[i].ok
    THEN [ok |-> TRUE, val |-> [i \in 1..Len(c) |-> c[i].val]]
    ELSE [ok |-> FALSE, val |-> <<>>]

\* the whole loop over the tokens
Components(tokens, hue) ==
    AllOk([i \in 1..Len(tokens) |-> Component(i - 1, tokens[i], hue)])

\* lines 229-232
Checked(r) ==
    IF Len(r) # 4 THEN Raise("InvalidColor") ELSE Ok([i \in 1..4 |-> Clamp(r[i])])

\* line 227 without the test of line 226
AppendedAlways(entry) == Append(entry, One)

\* lines 226-227: the list after them
Appended(entry) == IF Len(entry) = 3 THEN Append(entry, One) ELSE entry

\* lines 226-232
Finish(result) == Checked(Appended(result))

S_hash == <<"#">>
S_rgb == <<"r", "g", "b", "(">>
S_rgba == <<"r", "g", "b", "a", "(">>
S_hsl == <<"h", "s", "l", "(">>
S_hsla == <<"h", "s", "l", "a", "(">>

Local(val) == [kind |-> "local", val |-> val]
Failed(kind) == [kind |-> kind, val |-> <<>>]

\* lines 198 and 200 given the list built
HexResult(h) == IF h.ok THEN Local(h.val) ELSE Failed("ValueError")

\* lines 197-202: w is the width of a channel's slice
CollectHex(color, w) ==
    HexResult(HexList(<<SubSeq(color, 2, 1 + w), SubSeq(color, 2 + w, 1 + 2 * w),
                        SubSeq(color, 2 + 2 * w, 1 + 3 * w)>>,
                      IF w = 2 THEN 255 ELSE 15))

\* lines 205-211
CollectRgb(c) == IF c.ok THEN Local(c.val) ELSE Failed("ValueError")

\* line 221
WithRgb(val, t) == Local([i \in 1..Len(val) |-> IF i <= 3 THEN t[i] ELSE val[i]])

\* lines 214-221
CollectHsl(c) ==
    IF ~c.ok THEN Failed("ValueError")
    ELSE IF Len(c.val) < 3 THEN Failed("IndexError")
    ELSE WithRgb(c.val, hsv_to_rgb(c.val[1], c.val[2], c.val[3]))

\* lines 195-224: the list `result` before line 226.  kind "local": a list
\* the call owns, in val; "alias": the table's own list _colornames[color]
\* (line 224 binds the name, it copies nothing); otherwise the exception
\* raised on the way.
Collect(color, names) ==
    IF StartsWith(color, S_hash)
    THEN IF Len(color) = 7 THEN CollectHex(color, 2)
         ELSE IF Len(color) = 4 THEN CollectHex(color, 1)
         ELSE Local(<<>>)
    ELSE IF StartsWith(color, S_rgb) \/ StartsWith(color, S_rgba)
    THEN CollectRgb(Components(FindAll(AfterParen(color), <<>>), FALSE))
    ELSE IF StartsWith(color, S_hsl) \/ StartsWith(color, S_hsla)
    THEN CollectHsl(Components(FindAll(AfterParen(color), <<>>), TRUE))
    ELSE IF color \in DOMAIN names THEN Failed("alias")
    ELSE Local(<<>>)

\* lines 226-232 given the list of lines 195-224
rgbaOf(c, color, names) ==
    IF c.kind = "alias"
    THEN [out |-> Finish(names[color]),
          names |-> [names EXCEPT ![color] = Appended(names[color])]]
    ELSE IF c.kind = "local"
    THEN [out |-> Finish(c.val), names |-> names]
    ELSE [out |-> Raise(c.kind), names |-> names]

\* rgba(color) run to its end on the table `names`: [out, names], the
\* outcome and the table the call leaves behind.
rgba(color, names) == rgbaOf(Collect(color, names), color, names)

\* line 238
hslaOf(r) ==
    IF r.out.kind # "ok" THEN r
    ELSE [out |-> Ok(rgb_to_hsv(r.out.value[1], r.out.value[2], r.out.value[3])
                     \o <<r.out.value[4]>>),
          names |-> r.names]

\* hsla(color): lines 237-238
hsla(color, names) == hslaOf(rgba(color, names))

(***************************************************************************)
(* name(r, g, b, a): the formatter.                                        *)
(***************************************************************************)
\* '%02x' % n for an int 0 <= n <= 255
Hex2(n) == <<HexDigits[(n \div 16) + 1], HexDigits[(n % 16) + 1]>>

RECURSIVE DecStr(_)
\* '%d' % n for n >= 0
DecStr(n) == IF n < 10 THEN <<HexDigits[n + 1]>>
             ELSE Append(DecStr(n \div 10), HexDigits[(n % 10) + 1])

\* m hundredths written with two decimals
Hundredths(m) ==
    DecStr(m \div 100) \o <<".", HexDigits[((m \div 10) % 10) + 1],
                             HexDigits[(m % 10) + 1]>>

\* w / 2^s rounded to the nearest integer, ties to even, for w < 2^60
Nearest(w, s) ==
    IF s >= 62 THEN 0
    ELSE IntOfWide(ShiftRight(w, s))
         + (IF Bit(w, s - 1) = 1 /\ (LowNonZero(w, s - 1) \/ Bit(w, s) = 1)
            THEN 1 ELSE 0)

\* '%0.2f' % a for 0 <= a < 1: the decimal nearest to the float's exact
\* value; a zero keeps its sign
Fixed2(a) ==
    IF IsZero(a) THEN (IF a.neg THEN <<"-">> ELSE <<>>) \o Hundredths(0)
    ELSE Hundredths(Nearest(WideMul(Mant(a), WideOf(100)), -a.exp))

\* re.sub(r'#(\w)\1(\w)\2(\w)\3', r'#\1\2\3', s) on s = '#rrggbb'
Shorten(s) ==
    IF s[2] = s[3] /\ s[4] = s[5] /\ s[6] = s[7]
    THEN <<"#", s[2], s[4], s[6]>> ELSE s

\* lines 247-251 on int(255*r), int(255*g), int(255*b) and the clamped a
nameOf(R, G, B, A) ==
    IF ~FloatLess(A, One)
    THEN Shorten(<<"#">> \o Hex2(R) \o Hex2(G) \o Hex2(B))
    ELSE <<"r", "g", "b", "a", "(">> \o DecStr(R) \o <<",">>
         \o DecStr(G) \o <<",">> \o DecStr(B) \o <<",">>
         \o Fixed2(A) \o <<")">>

\* 255*v as '%02x' and '%d' write it: cut to an int
Byte(v) == Trunc(FloatMul(FromInt(255), v))

name(r, g, b, a) == nameOf(Byte(Clamp(r)), Byte(Clamp(g)), Byte(Clamp(b)), Clamp(a))

(***************************************************************************)
(* gradient(x, ranges).  A stop is <<position, color>>; a position is a    *)
(* Python number [int, val]: whether it is an int, and its value as a      *)
(* float.  The argument x is [kind, val, items]: a number ("float", with   *)
(* val what float(x) returns), a NaN ("nan"), or a sequence of such        *)
(* arguments ("list", in items).                                           *)
(***************************************************************************)
\* seq[k] with Python's indexing, k 0-based and negative k from the end
PyIndex(seq, k) == IF k < 0 THEN seq[Len(seq) + k + 1] ELSE seq[k + 1]

RECURSIVE Insert(_, _)
\* `stop` put after every stop of the sorted list whose key is <= its own
Insert(sorted, stop) ==
    IF Len(sorted) = 0 THEN <<stop>>
    ELSE IF FloatLess(stop[1].val, Head(sorted)[1].val) THEN <<stop>> \o sorted
    ELSE <<Head(sorted)>> \o Insert(Tail(sorted), stop)

RECURSIVE SortedUpTo(_, _)
SortedUpTo(ranges, n) ==
    IF n = 0 THEN <<>> ELSE Insert(SortedUpTo(ranges, n - 1), ranges[n])

\* the stops left in the order given
SortedAsGiven(ranges) == ranges

\* sorted(ranges, key=operator.itemgetter(0)): a stable sort on position
Sorted(ranges) == SortedUpTo(ranges, Len(ranges))

\* line 272 with < for <=
AtOrBelowFirstStrict(x, first) == FloatLess(x, first)

\* the test of line 272
AtOrBelowFirst(x, first) == FloatLe(x, first)

\* the stops at or above x, by 0-based index
Hits(x, sorted) == {i \in 0..(Len(sorted) - 1) : FloatLe(x, sorted[i + 1][1].val)}

\* the largest of a set of indexes, or `none` for the empty set
Greatest(S, none) == IF S = {} THEN none ELSE CHOOSE i \in S : \A j \in S : j <= i

\* the loop without its break: the last stop at or above x
ScanIndexLast(x, sorted) == Greatest(Hits(x, sorted), Len(sorted) - 1)

\* lines 276-278: the 0-based i the loop leaves behind
ScanIndex(x, sorted) == Least(Hits(x, sorted), Len(sorted) - 1)

Trace(branch, i, den, p) == [branch |-> branch, i |-> i, den |-> den, p |-> p]

\* line 270: float(x), or the int 0 for a NaN
ScalarOf(x) == IF x.kind = "nan" THEN PyInt(0) ELSE [int |-> FALSE, val |-> x.val]

\* a - b: an int when both are ints
PySub(a, b) == [int |-> a.int /\ b.int, val |-> FloatSub(a.val, b.val)]

\* a // b for ints a and b # 0
FloorDiv(a, b) == IF b < 0 THEN (-a) \div (-b) ELSE a \div b

\* a / b for b # 0, as Python 2 divides: two ints give the floor
PyDiv(a, b) ==
    IF a.int /\ b.int THEN FromInt(FloorDiv(Trunc(a.val), Trunc(b.val)))
    ELSE FloatDiv(a.val, b.val)

\* a*q + b*p on one channel, with q = 1. - p
Blend(a, b, p) == FloatAdd(FloatMul(a, FloatSub(One, p)), FloatMul(b, p))

\* lines 283-285 given the two parsed colors
gradientName(a, b, tr) ==
    IF a.out.kind # "ok" THEN [out |-> a.out, names |-> a.names, trace |-> tr]
    ELSE IF b.out.kind # "ok" THEN [out |-> b.out, names |-> b.names, trace |-> tr]
    ELSE [out |-> Ok(name(Blend(a.out.value[1], b.out.value[1], tr.p),
                          Blend(a.out.value[2], b.out.value[2], tr.p),
                          Blend(a.out.value[3], b.out.value[3], tr.p), One)),
          names |-> b.names, trace |-> tr]

\* lines 281-282: b is parsed on the table that parsing a has left
gradientSecond(a, cur, tr) ==
    IF a.out.kind # "ok" THEN gradientName(a, a, tr)
    ELSE gradientName(a, rgba(cur[2], a.names), tr)

\* lines 279-285 given the denominator of p
gradientBlend(x, prev, cur, i, den, names) ==
    IF IsZero(den.val)
    THEN [out |-> Raise("ZeroDivisionError"), names |-> names,
          trace |-> Trace("blend", i, den.val, Zero)]
    ELSE gradientSecond(rgba(prev[2], names), cur,
                        Trace("blend", i, den.val, PyDiv(PySub(x, prev[1]), den)))

\* lines 279-285 given the i of the loop
gradientAt(x, r, i, names) ==
    gradientBlend(x, PyIndex(r, i - 1), PyIndex(r, i), i,
                  PySub(PyIndex(r, i)[1], PyIndex(r, i - 1)[1]), names)

\* lines 272-285 on the sorted stops r, for a number x
gradientSorted(x, r, names) ==
    IF Len(r) = 0
    THEN [out |-> Raise("IndexError"), names |-> names,
          trace |-> Trace("none", 0, Zero, Zero)]
    ELSE IF AtOrBelowFirst(x.val, PyIndex(r, 0)[1].val)
    THEN [out |-> Ok(PyIndex(r, 0)[2]), names |-> names,
          trace |-> Trace("first", 0, Zero, Zero)]
    ELSE IF FloatLe(PyIndex(r, -1)[1].val, x.val)
    THEN [out |-> Ok(PyIndex(r, -1)[2]), names |-> names,
          trace |-> Trace("last", 0, Zero, Zero)]
    ELSE gradientAt(x, r, ScanIndex(x.val, r), names)

RECURSIVE gradient(_, _, _)
RECURSIVE gradientList(_, _, _, _)
\* line 268 after one element: its exception ends the call
gradientNext(r, rest, ranges, acc) ==
    IF r.out.kind # "ok"
    THEN [out |-> r.out, names |-> r.names, trace |-> Trace("list", 0, Zero, Zero)]
    ELSE gradientList(rest, ranges, r.names, Append(acc, r.out.value))

\* line 268: the list of gradient(v, ranges) for v in x, one after the other
gradientList(items, ranges, names, acc) ==
    IF Len(items) = 0
    THEN [out |-> Ok(acc), names |-> names, trace |-> Trace("list", 0, Zero, Zero)]
    ELSE gradientNext(gradient(Head(items), ranges, names), Tail(items), ranges, acc)

\* gradient(x, ranges) on the table `names`: [out, names, trace]; trace
\* tells which return statement ran and, for the interpolation, the index
\* i, the denominator and the fraction p
gradient(x, ranges, names) ==
    IF x.kind = "list" THEN gradientList(x.items, ranges, names, <<>>)
    ELSE gradientSorted(ScalarOf(x), Sorted(ranges), names)

(***************************************************************************)
(* contrast, brighten, distinct and the theme palette _MSO.                *)
(***************************************************************************)
S_black == <<"#", "0", "0", "0">>
S_white == <<"#", "f", "f", "f">>

\* line 297
Luminosity(R, G, B) ==
    FloatAdd(FloatAdd(FloatMul(F(21, 100), R), FloatMul(F(71, 100), G)),
             FloatMul(F(7, 100), B))

\* lines 297-299
contrastOf(r) ==
    IF r.out.kind # "ok" THEN r
    ELSE [out |-> Ok(IF FloatLess(F(1, 2), Luminosity(r.out.value[1], r.out.value[2],
                                                      r.out.value[3]))
                     THEN S_black ELSE S_white),
          names |-> r.names]

contrast(color, names) == contrastOf(rgba(color, names))

\* line 311
brightenName(rgb, names) == [out |-> Ok(name(rgb[1], rgb[2], rgb[3], One)), names |-> names]

\* lines 310-311
brightenHsv(hsv, by, names) ==
    brightenName(hsv_to_rgb(hsv[1], hsv[2],
                            FloatMax(Zero, FloatMin(One, FloatMul(hsv[3], FloatAdd(One, by))))),
                 names)

\* lines 309-311
brightenOf(r, by) ==
    IF r.out.kind # "ok" THEN r
    ELSE brightenHsv(rgb_to_hsv(r.out.value[1], r.out.value[2], r.out.value[3]),
                     by, r.names)

brighten(color, by, names) == brightenOf(rgba(color, names), by)

\* line 331 with < for <=
distinctOffByOne(n, table) ==
    IF n < 10 THEN [k \in 1..n |-> PyIndex(table, 2 * (k - 1))]
    ELSE IF n <= 20 THEN SubSeq(table, 1, n)
    ELSE table

\* distinct(n) on the list `table`
distinct(n, table) ==
    IF n <= 10 THEN [k \in 1..n |-> PyIndex(table, 2 * (k - 1))]
    ELSE IF n <= 20 THEN SubSeq(table, 1, n)
    ELSE table

NoneOut == [kind |-> "None", value |-> <<>>]

IsSlot(key) == \E i \in 1..Len(LookupOrder) : LookupOrder[i] = key
SlotOf(key) == LookupIndex[CHOOSE i \in 1..Len(LookupOrder) : LookupOrder[i] = key]

\* one bound of a slice, as tuple slicing places it in 0..len
SliceBound(k, len) ==
    IF k < 0 THEN (IF k + len < 0 THEN 0 ELSE k + len)
    ELSE IF k > len THEN len ELSE k

\* _MSO.__getitem__(key): key.kind is "int" (the integer key.n), "slice"
\* (key.start:key.stop) or "str" (the string key.s)
getitem(values, key) ==
    IF key.kind = "slice"
    THEN Ok(SubSeq(values, SliceBound(key.start, Len(values)) + 1,
                   SliceBound(key.stop, Len(values))))
    ELSE IF key.kind = "int"
    THEN IF key.n >= Len(values) \/ key.n < -Len(values)
         THEN Raise("IndexError")
         ELSE Ok(PyIndex(values, key.n))
    ELSE IF IsSlot(key.s) THEN Ok(PyIndex(values, SlotOf(key.s)))
    ELSE NoneOut

\* line 132 without the test of line 131
getattrNoTest(values, key) ==
    IF IsSlot(key) THEN Ok(PyIndex(values, SlotOf(key))) ELSE Raise("KeyError")

\* _MSO.__getattr__(key), reached for a name that is no ordinary attribute
getattr(values, key) ==
    IF IsSlot(key) THEN Ok(PyIndex(values, SlotOf(key))) ELSE NoneOut

(***************************************************************************)
(* The arguments the calls are made with.                                  *)
(***************************************************************************)
\* how many of the 16 names, in table order, rgba is called with
MaxNamed == 3
\* the longest argument list of a functional literal
MaxTokens == 5
\* the longest gradient
MaxStops == 3
\* name() is called with components k/GridDen, k in -1..GridDen+1
GridDen == 6
\* distinct(n) is called with n in -MaxN..MaxN
MaxN == 22
\* the threads of the concurrent specification
NumThreads == 2

NamedInputs == {ColorNameOrder[i] : i \in 1..MaxNamed}
UnknownNames == {<<"p", "i", "n", "k">>, <<"B", "l", "a", "c", "k">>, <<>>}

HexLiterals ==
    {<<"#", a, b, c>> : a, b, c \in {"0", "f", "C", "g"}}
    \cup {<<"#">> \o a \o b \o c :
            a, b, c \in {<<"0", "0">>, <<"7", "f">>, <<"F", "F">>,
                         <<" ", "f">>, <<"g", "0">>}}
    \cup {[i \in 1..n |-> IF i = 1 THEN "#" ELSE "f"] : n \in {1, 2, 3, 5, 6, 8}}
    \cup {<<"#", w, "f", "0", "0", "0", "0">> : w \in Whitespace}
    \cup {<<"#", "0", "0", "8", w, v, w>> : v, w \in Whitespace \cup {"+", "-", "1"}}

TokenSamples == {<<"3", "6", "0">>, <<"5", "0", "%">>, <<".">>}
AlphaSamples == {<<".", "4">>, <<"1", ".", "9">>}

RECURSIVE Join(_)
\* the tokens separated by commas
Join(tokens) ==
    IF Len(tokens) = 0 THEN <<>>
    ELSE IF Len(tokens) = 1 THEN tokens[1]
    ELSE tokens[1] \o <<",">> \o Join(Tail(tokens))

FuncLiterals ==
    {p \o Join([i \in 1..n |-> IF i <= 3 THEN t[i] ELSE a]) \o <<")">> :
        p \in {S_rgb, S_rgba, S_hsl, S_hsla}, n \in 0..MaxTokens,
        t \in {<<u, v, v>> : u, v \in TokenSamples}, a \in AlphaSamples}

\* the literals of the assertions at lines 340-350, and two parentheses
AssertLiterals ==
    {<<"r","g","b","(","2","5","5",","," ","0","%"," ",","," ","1","0","0","%"," ",")">>,
     <<"r","g","b","a","("," ","2","5","5"," "," ",","," ","0","%"," ",","," ","1","0","0","%",",",".","4",")">>,
     <<"h","s","l","(","0",","," ","1","0","0","%",","," ","5","0","%",")">>,
     <<"h","s","l","a","(","0",","," ","1","0","0","%",","," ","1","0","0","%",","," ",".","9",")">>,
     <<"h","s","l","a","(","3","6","0",","," ","1","0","0","%",","," ","1","0","0","%",","," ","1",".","9",")">>,
     <<"h","s","l","a","(","3","6","0",","," ","0","%",","," ","5","0","%",","," ",".","5",")">>,
     <<"h","s","l","a","(","0",","," ","0","%",","," ","5","0","%",","," ",".","5",")">>,
     <<"h","s","l","(","2","0","0",",","5","0","%",",",".","7","5",")">>,
     <<"r","g","b","(","(","1",",","2",",","3",")">>,
     <<"r","g","b","(","1",",","2","(","3",")">>}

Literals == HexLiterals \cup FuncLiterals \cup AssertLiterals
            \cup NamedInputs \cup UnknownNames

\* the colors hsla, contrast and brighten are called with
SampleColors ==
    NamedInputs
    \cup {<<"#", "f", "f", "f">>, <<"#", "7", "4", "C", "4", "7", "6">>,
          <<"#", "8", "0", "8", "0", "8", "0">>, <<"#", "1", "2", "3", "4", "5", "6">>,
          <<"r","g","b","(","1","0","0",",","1","5","0",",","4","0",")">>,
          <<"r","g","b","a","(","2","5","5",",","0","%",",","5","0","%",",",".","4",")">>,
          <<"h","s","l","(","2","0","0",",","5","0","%",",",".","7","5",")">>,
          <<"h","s","l","(","0",")">>, <<"#", "g", "g", "g">>, <<"p", "i", "n", "k">>}
\* the literals the threads call rgba with
ThreadLiterals ==
    NamedInputs
    \cup {<<"#", "f", "f", "f">>, <<"h","s","l","(","0",")">>, <<"p", "i", "n", "k">>,
          <<"r","g","b","a","(","2","5","5",",","0","%",",","5","0","%",",",".","4",")">>}
BySamples == {F(-1, 2), F(0, 1), F(1, 4), F(1, 3), F(2, 1)}

\* 7/102 and 23/30 are cut to the bytes 0x11 and 0xc3 with a remainder
Grid == {F(k, GridDen) : k \in -1..(GridDen + 1)} \cup {F(7, 102), F(23, 30)}
\* 1/200, 3/200, 1/40 and 199/200 are not the doubles' values: %0.2f
\* rounds what the doubles hold
FormatAlphas ==
    {F(1, 2), F(2, 1), F(-1, 1), F(1, 8), F(499, 500), F(1, 200), F(3, 200),
     F(1, 40), F(199, 200), FZero(TRUE)}
FormatArgs ==
    {<<r, g, b, One>> : r, g, b \in Grid}
    \cup {<<r, r, r, a>> : r \in Grid, a \in FormatAlphas}

\* stop colors by input index: spelled in upper case, so that formatting
\* one would change it; the second row has names and an alpha
Palettes ==
    {<< <<"#", "F", "7", "F", "C", "F", "5">>, <<"#", "7", "4", "C", "4", "7", "6">>,
        <<"#", "0", "0", "4", "4", "1", "B">>, <<"#", "F", "D", "8", "D", "3", "C">>,
        <<"#", "A", "B", "C">> >>,
     << ColorNameOrder[2],
        <<"r","g","b","a","(","2","5","5",",","0","%",",","5","0","%",",",".","4",")">>,
        ColorNameOrder[1], <<"#", "f", "0", "0">>, <<"#", "F", "F", "F">> >>}
StopPositions == {PyFloatOf(0, 1), PyFloatOf(1, 2), PyFloatOf(1, 1)}

\* gradients whose positions are ints: the one of the docstring, one of
\* two stops, and one that mixes ints with a float
IntGradients ==
    {<< <<PyInt(-1), <<"#", "f", "f", "0", "0", "0", "0">> >>,
        <<PyInt(0), <<"#", "f", "f", "f", "f", "f", "f">> >>,
        <<PyInt(1), <<"#", "0", "0", "f", "f", "0", "0">> >> >>,
     << <<PyInt(1), <<"#", "0", "0", "f", "f", "0", "0">> >>,
        <<PyInt(-1), <<"#", "f", "f", "0", "0", "0", "0">> >> >>,
     << <<PyInt(2), ColorNameOrder[1]>>, <<PyFloatOf(-1, 2), <<"#", "g", "g", "g">> >>,
        <<PyInt(-3), ColorNameOrder[2]>> >>}

Number(f) == [kind |-> "float", val |-> f, items |-> <<>>]
NaN == [kind |-> "nan", val |-> Zero, items |-> <<>>]
List(items) == [kind |-> "list", val |-> Zero, items |-> items]

\* the numbers gradient is called with: 4/5, 9/10, 2/5 and 1/3 give
\* fractions p that are not what the division gives over the rationals
XNumbers ==
    {Number(F(k, 4)) : k \in -1..5}
    \cup {Number(F(4, 5)), Number(F(9, 10)), Number(F(-4, 5)), Number(F(2, 5)),
          Number(F(1, 3))}
XLists ==
    {List(<<>>), List(<<Number(F(1, 4)), NaN, Number(F(4, 5))>>),
     List(<<List(<<Number(F(1, 2)), Number(F(3, 4))>>),
            List(<<Number(F(2, 1)), NaN>>)>>)}
XSamples == XNumbers \cup {NaN} \cup XLists

Gradients ==
    {[i \in 1..n |-> <<pos[i], pal[((i - 1) % Len(pal)) + 1]>>] :
        n \in 1..MaxStops, pos \in [1..MaxStops -> StopPositions], pal \in Palettes}
    \cup {RYG, RWG_1, Greens} \cup IntGradients

Themes == {Office, Adjacency}
IntKey(k) == [kind |-> "int", n |-> k, s |-> <<>>, start |-> 0, stop |-> 0]
StrKey(s) == [kind |-> "str", n |-> 0, s |-> s, start |-> 0, stop |-> 0]
SliceKey(a, b) == [kind |-> "slice", n |-> 0, s |-> <<>>, start |-> a, stop |-> b]
OtherNames == {<<"a", "c", "c", "e", "n", "t", "_", "7">>,
               <<"v", "a", "l", "u", "e">>, <<"A", "c", "c", "e", "n", "t", "_", "1">>}
Keys ==
    {IntKey(k) : k \in -14..14}
    \cup {StrKey(LookupOrder[i]) : i \in 1..Len(LookupOrder)}
    \cup {StrKey(s) : s \in OtherNames \cup {<<>>}}
    \cup {SliceKey(a, b) : a \in {0, 1, -2}, b \in {1, 11, 15, -1}}
AttrKeys == {LookupOrder[i] : i \in 1..Len(LookupOrder)} \cup OtherNames
(***************************************************************************)
(* The calls, one after the other.  `last` is the call that has just run,  *)
(* with its arguments and its outcome, until the caller takes the outcome  *)
(* (Return) and goes on to its next call.                                  *)
(***************************************************************************)
NoTrace == [branch |-> "none", i |-> 0, den |-> Zero, p |-> Zero]
NoCall == [op |-> "none", args |-> <<>>, out |-> NoneOut, trace |-> NoTrace]
Idle == [pc |-> "idle", color |-> <<>>, alias |-> FALSE, result |-> <<>>,
         out |-> NoneOut]

Init ==
    /\ colornames = ColorNames0
    /\ distincts = Distincts0
    /\ last = NoCall
    /\ threads = [t \in 1..NumThreads |-> Idle]

Parse(color) ==
    /\ last = NoCall
    /\ \E r \in {rgba(color, colornames)} :
        /\ colornames' = r.names
        /\ last' = [op |-> "rgba", args |-> <<color>>, out |-> r.out,
                    trace |-> NoTrace]
        /\ UNCHANGED <<distincts, threads>>

ToHSVA(color) ==
    /\ last = NoCall
    /\ \E r \in {hsla(color, colornames)} :
        /\ colornames' = r.names
        /\ last' = [op |-> "hsla", args |-> <<color>>, out |-> r.out,
                    trace |-> NoTrace]
        /\ UNCHANGED <<distincts, threads>>

Format(r, g, b, a) ==
    /\ last = NoCall
    /\ last' = [op |-> "name", args |-> <<r, g, b, a>>,
                out |-> Ok(name(r, g, b, a)), trace |-> NoTrace]
    /\ UNCHANGED <<colornames, distincts, threads>>

Interpolate(x, ranges) ==
    /\ last = NoCall
    /\ \E r \in {gradient(x, ranges, colornames)} :
        /\ colornames' = r.names
        /\ last' = [op |-> "gradient", args |-> <<x, ranges>>, out |-> r.out,
                    trace |-> r.trace]
        /\ UNCHANGED <<distincts, threads>>

Contrast(color) ==
    /\ last = NoCall
    /\ \E r \in {contrast(color, colornames)} :
        /\ colornames' = r.names
        /\ last' = [op |-> "contrast", args |-> <<color>>, out |-> r.out,
                    trace |-> NoTrace]
        /\ UNCHANGED <<distincts, threads>>

Brighten(color, by) ==
    /\ last = NoCall
    /\ \E r \in {brighten(color, by, colornames)} :
        /\ colornames' = r.names
        /\ last' = [op |-> "brighten", args |-> <<color, by>>, out |-> r.out,
                    trace |-> NoTrace]
        /\ UNCHANGED <<distincts, threads>>

DistinctPalette(n) ==
    /\ last = NoCall
    /\ last' = [op |-> "distinct", args |-> <<n>>,
                out |-> Ok(distinct(n, distincts)), trace |-> NoTrace]
    /\ UNCHANGED <<colornames, distincts, threads>>

Lookup(values, key) ==
    /\ last = NoCall
    /\ last' = [op |-> "getitem", args |-> <<values, key>>,
                out |-> getitem(values, key), trace |-> NoTrace]
    /\ UNCHANGED <<colornames, distincts, threads>>

LookupAttr(values, key) ==
    /\ last = NoCall
    /\ last' = [op |-> "getattr", args |-> <<values, key>>,
                out |-> getattr(values, key), trace |-> NoTrace]
    /\ UNCHANGED <<colornames, distincts, threads>>

\* the caller has the outcome of its call
Return ==
    /\ last # NoCall
    /\ last' = NoCall
    /\ UNCHANGED <<colornames, distincts, threads>>

Next ==
    \/ \E color \in Literals : Parse(color)
    \/ \E color \in SampleColors : ToHSVA(color)
    \/ \E c \in FormatArgs : Format(c[1], c[2], c[3], c[4])
    \/ \E x \in XSamples, ranges \in Gradients : Interpolate(x, ranges)
    \/ \E color \in SampleColors : Contrast(color)
    \/ \E color \in SampleColors, by \in BySamples : Brighten(color, by)
    \/ \E n \in (-MaxN)..MaxN : DistinctPalette(n)
    \/ \E values \in Themes, key \in Keys : Lookup(values, key)
    \/ \E values \in Themes, key \in AttrKeys : LookupAttr(values, key)
    \/ Return

Spec == Init /\ [][Next]_vars

(***************************************************************************)
(* rgba called from several threads.  The interpreter may switch threads   *)
(* between any two statements, so a call is the steps below; `alias` says  *)
(* that the thread's `result` is the table's list _colornames[color].      *)
(***************************************************************************)
\* the list a thread's name `result` is bound to
ResultOf(t) ==
    IF threads[t].alias THEN colornames[threads[t].color] ELSE threads[t].result

Call(t, color) ==
    /\ threads[t].pc = "idle"
    /\ threads' = [threads EXCEPT ![t] = [Idle EXCEPT !.pc = "collect",
                                                       !.color = color]]
    /\ UNCHANGED <<colornames, distincts, last>>

\* lines 195-224
CollectStep(t) ==
    /\ threads[t].pc = "collect"
    /\ \E c \in {Collect(threads[t].color, colornames)} :
           threads' = [threads EXCEPT ![t] =
               IF c.kind = "alias" THEN [@ EXCEPT !.alias = TRUE, !.pc = "test3"]
               ELSE IF c.kind = "local"
               THEN [@ EXCEPT !.result = c.val, !.pc = "test3"]
               ELSE [@ EXCEPT !.out = Raise(c.kind), !.pc = "done"]]
    /\ UNCHANGED <<colornames, distincts, last>>

\* line 226
Test3(t) ==
    /\ threads[t].pc = "test3"
    /\ threads' = [threads EXCEPT ![t].pc =
                      IF Len(ResultOf(t)) = 3 THEN "append" ELSE "test4"]
    /\ UNCHANGED <<colornames, distincts, last>>

\* line 227
AppendStep(t) ==
    /\ threads[t].pc = "append"
    /\ IF threads[t].alias
       THEN /\ colornames' = [colornames EXCEPT
                                ![threads[t].color] = Append(@, One)]
            /\ threads' = [threads EXCEPT ![t].pc = "test4"]
       ELSE /\ threads' = [threads EXCEPT ![t].pc = "test4",
                                          ![t].result = Append(@, One)]
            /\ UNCHANGED colornames
    /\ UNCHANGED <<distincts, last>>

\* lines 229-230
Test4(t) ==
    /\ threads[t].pc = "test4"
    /\ threads' = [threads EXCEPT ![t] =
                      IF Len(ResultOf(t)) # 4
                      THEN [@ EXCEPT !.out = Raise("InvalidColor"), !.pc = "done"]
                      ELSE [@ EXCEPT !.pc = "ret"]]
    /\ UNCHANGED <<colornames, distincts, last>>

\* line 232
Ret(t) ==
    /\ threads[t].pc = "ret"
    /\ threads' = [threads EXCEPT ![t] =
                      [@ EXCEPT !.out = Ok([i \in 1..Len(ResultOf(t)) |->
                                              Clamp(ResultOf(t)[i])]),
                                !.pc = "done"]]
    /\ UNCHANGED <<colornames, distincts, last>>

\* the caller has the outcome of its call
Finished(t) ==
    /\ threads[t].pc = "done"
    /\ threads' = [threads EXCEPT ![t] = Idle]
    /\ UNCHANGED <<colornames, distincts, last>>

NextThreads ==
    \/ \E t \in 1..NumThreads, color \in ThreadLiterals : Call(t, color)
    \/ \E t \in 1..NumThreads : CollectStep(t)
    \/ \E t \in 1..NumThreads : Test3(t)
    \/ \E t \in 1..NumThreads : AppendStep(t)
    \/ \E t \in 1..NumThreads : Test4(t)
    \/ \E t \in 1..NumThreads : Ret(t)
    \/ \E t \in 1..NumThreads : Finished(t)

SpecThreads == Init /\ [][NextThreads]_vars

(***************************************************************************)
(* The properties.                                                         *)
(***************************************************************************)
AllNames == {ColorNameOrder[i] : i \in 1..Len(ColorNameOrder)}
InUnit(v) == FloatLe(Zero, v) /\ FloatLe(v, One)

\* C1: after any sequence of calls the static tables equal their initial
\* values: no call changes _colornames or _distincts.
C1_TablesUnchanged == colornames = ColorNames0 /\ distincts = Distincts0

\* C2: Parse is stateless across calls.  The outcome of every rgba call
\* made, after whatever calls came before it, is the outcome of the same
\* call on the freshly built table; and in every state reached the next
\* call on each of the 16 names would return what the first call on the
\* fresh table returns, with alpha 1.
C2_ParseStateless ==
    /\ last.op = "rgba" => last.out = rgba(last.args[1], ColorNames0).out
    /\ \A c \in AllNames :
          /\ rgba(c, colornames).out = rgba(c, ColorNames0).out
          /\ rgba(c, colornames).out.kind = "ok"
          /\ rgba(c, colornames).out.value[4] = One

\* a named color has just been parsed on a table in which every name the
\* calls use has its alpha
C2_Witness ==
    /\ last.op = "rgba"
    /\ last.args[1] \in NamedInputs
    /\ last.out.kind = "ok"
    /\ \A c \in NamedInputs : Len(colornames[c]) = 4

\* C3: rgba calls whose steps interleave each return what the call returns
\* when it runs alone on the fresh table.
C3_ConcurrentAsAlone ==
    \A t \in 1..NumThreads :
        threads[t].pc = "done" =>
            threads[t].out = rgba(threads[t].color, ColorNames0).out

\* C4: rgba returns four components in [0, 1] or raises the ValueError
\* '<literal>: invalid color', and raises nothing else.
C4_OnlyInvalidColor ==
    last.op = "rgba" =>
        \/ last.out.kind = "InvalidColor"
        \/ /\ last.out.kind = "ok"
           /\ Len(last.out.value) = 4
           /\ \A i \in 1..4 : InUnit(last.out.value[i])

\* the positions of a gradient as floats, and the input indexes of the
\* stop that an ascending stable sort puts first and of the one it puts
\* last
Positions(ranges) == {ranges[i][1].val : i \in 1..Len(ranges)}
MinPos(ranges) ==
    CHOOSE m \in Positions(ranges) : \A q \in Positions(ranges) : FloatLe(m, q)
MaxPos(ranges) ==
    CHOOSE m \in Positions(ranges) : \A q \in Positions(ranges) : FloatLe(q, m)
FirstAt(ranges, pos) ==
    CHOOSE i \in 1..Len(ranges) :
        /\ FloatEq(ranges[i][1].val, pos)
        /\ \A j \in 1..Len(ranges) : FloatEq(ranges[j][1].val, pos) => i <= j
LastAt(ranges, pos) ==
    CHOOSE i \in 1..Len(ranges) :
        /\ FloatEq(ranges[i][1].val, pos)
        /\ \A j \in 1..Len(ranges) : FloatEq(ranges[j][1].val, pos) => j <= i

\* gradient has just been called with a number for x
Numeric == last.op = "gradient" /\ last.args[1].kind = "float"

\* the boundary law for x on `ranges`, whose smallest position is lo and
\* whose largest is hi
BoundaryLaw(x, ranges, lo, hi) ==
    /\ FloatLe(x, lo) => last.out = Ok(ranges[FirstAt(ranges, lo)][2])
    /\ (~FloatLe(x, lo) /\ FloatLe(hi, x)) =>
          last.out = Ok(ranges[LastAt(ranges, hi)][2])

\* C5: Interpolate boundary law.  With a number x at or below the smallest
\* stop position the result is the literal of the stop of that position
\* that comes first in the input, unchanged; otherwise with x at or above
\* the largest position it is the literal of the stop of that position
\* that comes last in the input, unchanged.
C5_BoundaryLaw ==
    (Numeric /\ Len(last.args[2]) >= 1) =>
        BoundaryLaw(last.args[1].val, last.args[2], MinPos(last.args[2]),
                    MaxPos(last.args[2]))

\* x sits exactly on the smallest position of a gradient given out of
\* order, two stops share that position, and the earlier one's literal,
\* in upper case as given, came back
C5_Witness ==
    /\ Numeric
    /\ Len(last.args[2]) = 3
    /\ last.args[1].val = MinPos(last.args[2])
    /\ last.args[2][1][1].val # MinPos(last.args[2])
    /\ last.args[2][2][1] = last.args[2][3][1]
    /\ last.args[2][2][1].val = MinPos(last.args[2])
    /\ last.out = Ok(<<"#", "7", "4", "C", "4", "7", "6">>)

\* the stop the scan stops at for an interior x, by input index: of the
\* stops at the smallest position >= x, the first in the input; and its
\* predecessor: of the stops at the largest position < x, the last
Lowest(above) == CHOOSE m \in above : \A q \in above : FloatLe(m, q)
Highest(below) == CHOOSE m \in below : \A q \in below : FloatLe(q, m)
CurOf(ranges, x) ==
    FirstAt(ranges, Lowest({q \in Positions(ranges) : FloatLe(x, q)}))
PrevOf(ranges, x) ==
    LastAt(ranges, Highest({q \in Positions(ranges) : FloatLess(q, x)}))

Interior(x, ranges) ==
    Len(ranges) >= 1 /\ FloatLess(MinPos(ranges), x) /\ FloatLess(x, MaxPos(ranges))

S_b5e0b5 == <<"#", "b", "5", "e", "0", "b", "5">>

\* the interior law given the fraction p and the two parsed colors
InteriorAt(x, ranges, prev, cur, p, q, a, b) ==
    /\ last.trace.branch = "blend"
    /\ last.trace.p = p
    /\ IF a.kind # "ok" THEN last.out = a
       ELSE IF b.kind # "ok" THEN last.out = b
       ELSE last.out =
              Ok(name(FloatAdd(FloatMul(a.value[1], q), FloatMul(b.value[1], p)),
                      FloatAdd(FloatMul(a.value[2], q), FloatMul(b.value[2], p)),
                      FloatAdd(FloatMul(a.value[3], q), FloatMul(b.value[3], p)),
                      One))
    /\ (ranges = Greens /\ x = F(1, 4)) =>
          /\ prev[2] = Greens[1][2] /\ cur[2] = Greens[2][2]
          /\ last.trace.p = F(1, 2)
          /\ last.out = Ok(S_b5e0b5)

\* the interior law given the fraction p
InteriorWith(x, ranges, prev, cur, p) ==
    InteriorAt(x, ranges, prev, cur, p, FloatSub(One, p),
               rgba(prev[2], ColorNames0).out, rgba(cur[2], ColorNames0).out)

\* the interior law given the two stops around x
InteriorLaw(x, ranges, prev, cur) ==
    InteriorWith(x, ranges, prev, cur,
                 FloatDiv(FloatSub(x, prev[1].val), FloatSub(cur[1].val, prev[1].val)))

\* C6: Interpolate interior law.  For a number x strictly between the
\* smallest and the largest position the result is Format of the blend
\* prev*(1-p) + cur*p of the two parsed stop colors around x over R, G and
\* B, opaque, at the fraction
\* p = (x - prev.position) / (cur.position - prev.position), each
\* operation being the one of floats; on Greens, x = 0.25 blends #F7FCF5
\* and #74C476 at p = 0.5.
C6_InteriorLaw ==
    (Numeric /\ Interior(last.args[1].val, last.args[2])) =>
        InteriorLaw(last.args[1].val, last.args[2],
                    last.args[2][PrevOf(last.args[2], last.args[1].val)],
                    last.args[2][CurOf(last.args[2], last.args[1].val)])

\* Greens at 0.25
C6_Witness ==
    /\ Numeric
    /\ last.args[2] = Greens
    /\ last.args[1].val = F(1, 4)
    /\ last.out = Ok(S_b5e0b5)

\* key names no slot
Unrecognized(key) == \A i \in 1..Len(LookupOrder) : LookupOrder[i] # key
\* an integer index outside the palette
OutOfRange(values, n) == n >= Len(values) \/ n < -Len(values)

\* C7: a lookup on a theme palette, by item or by attribute, with an
\* unrecognized name or with an integer index out of range yields None and
\* raises nothing.
C7_LookupNeverRaises ==
    /\ (last.op = "getitem" /\ last.args[2].kind = "str"
            /\ Unrecognized(last.args[2].s)) => last.out = NoneOut
    /\ (last.op = "getitem" /\ last.args[2].kind = "int"
            /\ OutOfRange(last.args[1], last.args[2].n)) => last.out = NoneOut
    /\ (last.op = "getattr" /\ Unrecognized(last.args[2])) => last.out = NoneOut

\* C7 as amended: an unrecognized name yields None, by item and by
\* attribute; an integer index out of range raises IndexError.
C7_LookupAmended ==
    /\ (last.op = "getitem" /\ last.args[2].kind = "str"
            /\ Unrecognized(last.args[2].s)) => last.out = NoneOut
    /\ (last.op = "getitem" /\ last.args[2].kind = "int"
            /\ OutOfRange(last.args[1], last.args[2].n)) =>
                last.out = Raise("IndexError")
    /\ (last.op = "getattr" /\ Unrecognized(last.args[2])) => last.out = NoneOut

\* index 10 of a palette of 10 colors
C7_Witness ==
    /\ last.op = "getitem"
    /\ last.args[2].kind = "int"
    /\ last.args[2].n = Len(last.args[1])
    /\ Len(last.args[1]) = 10
    /\ last.out.kind = "IndexError"

\* the entries distinct(n) is to return, given how many
DistinctEntries(n, out) ==
    /\ n <= 10 => \A k \in 1..Len(out) : out[k] = Distincts0[2 * (k - 1) + 1]
    /\ n > 10 => \A k \in 1..Len(out) : out[k] = Distincts0[k]

Min(a, b) == IF a < b THEN a ELSE b

\* C8: DistinctPalette(n) returns min(n, 20) entries for every n <= 20 and
\* 20 entries for n > 20: the even-index entries for n <= 10, a prefix of
\* the table for n > 10.
C8_DistinctCount ==
    last.op = "distinct" =>
        LET n == last.args[1]
        IN  /\ n <= 20 => Len(last.out.value) = Min(n, 20)
            /\ n > 20 => Len(last.out.value) = 20
            /\ DistinctEntries(n, last.out.value)

\* C8 as amended: n entries for 0 <= n <= 20, none for n < 0, 20 for
\* n > 20, and the same entries.
C8_DistinctAmended ==
    last.op = "distinct" =>
        LET n == last.args[1]
        IN  /\ (0 <= n /\ n <= 20) => Len(last.out.value) = n
            /\ n < 0 => Len(last.out.value) = 0
            /\ n > 20 => Len(last.out.value) = 20
            /\ DistinctEntries(n, last.out.value)

\* ten colors asked for: the last one is entry 18 of the table
C8_Witness ==
    /\ last.op = "distinct"
    /\ last.args[1] = 10
    /\ Len(last.out.value) = 10
    /\ last.out.value[10] = Distincts0[19]

\* the mantissa of x at the exponent e <= x.exp
MantAt(x, e) == IF IsZero(x) THEN WideOf(0) ELSE ShiftLeft(Mant(x), x.exp - e)
\* the difference of two naturals
WideDiff(m, n) == IF WideLess(m, n) THEN WideSub(n, m) ELSE WideSub(m, n)
\* |a - b| <= 1/255 over the reals, for floats a and b in [0, 1] that are
\* multiples of 2^e of less than 2^103 * 2^e: 255 * |a - b| / 2^e <= 2^-e
WithinAt(a, b, e) ==
    /\ IsZero(a) \/ a.exp - e <= 50
    /\ IsZero(b) \/ b.exp - e <= 50
    /\ -e <= 110
    /\ ~WideLess(ShiftLeft(WideOf(1), -e),
                 WideMul(WideDiff(MantAt(a, e), MantAt(b, e)), WideOf(255)))
Within255(a, b) ==
    IF IsZero(a) /\ IsZero(b) THEN TRUE
    ELSE IF IsZero(a) THEN WithinAt(a, b, b.exp)
    ELSE IF IsZero(b) THEN WithinAt(a, b, a.exp)
    ELSE WithinAt(a, b, IF a.exp < b.exp THEN a.exp ELSE b.exp)

\* C9: round trip.  For r, g, b in [0, 1], Parse(Format(r, g, b, 1)) is a
\* color of alpha 1 whose channels are within 1/255 of r, g, b, in the
\* 6-digit and in the 3-digit form.
C9_RoundTrip ==
    (/\ last.op = "name"
     /\ last.args[4] = One
     /\ \A i \in 1..3 : InUnit(last.args[i])) =>
        /\ Len(last.out.value) \in {4, 7}
        /\ \E back \in {rgba(last.out.value, ColorNames0).out} :
              /\ back.kind = "ok"
              /\ back.value[4] = One
              /\ \A i \in 1..3 : Within255(back.value[i], last.args[i])

\* the 3-digit form of a color whose red channel was cut: 255 * 7/102 is
\* 17.5, formatted as 11 and shortened to 1
C9_Witness ==
    /\ last.op = "name"
    /\ last.args[4] = One
    /\ last.args[1] = F(7, 102)
    /\ Len(last.out.value) = 4
    /\ last.out.value[2] = "1"

\* the scan has stopped at the 0-based index i of the sorted stops r
ScanLaw(x, r, i) ==
    /\ i >= 1 /\ i <= Len(r) - 1
    /\ FloatLess(r[i][1].val, x) /\ FloatLe(x, r[i + 1][1].val)
    /\ last.trace.den = FloatSub(r[i + 1][1].val, r[i][1].val)
    /\ FloatLess(Zero, last.trace.den)
    /\ FloatLess(Zero, last.trace.p) /\ FloatLe(last.trace.p, One)

\* C10: Interpolate never divides by zero.  For a number x, whenever the
\* interpolation is reached the scan has stopped at an index i >= 1 of the
\* sorted stops with position[i-1] < x <= position[i]: the denominator is
\* positive and 0 < p <= 1.
C10_NoZeroDivision ==
    Numeric =>
        /\ last.out.kind # "ZeroDivisionError"
        /\ last.trace.branch = "blend" =>
              ScanLaw(last.args[1].val, Sorted(last.args[2]), last.trace.i)

\* an interpolation on a gradient given out of order in which two stops
\* share the position the scan stops at
C10_Witness ==
    /\ Numeric
    /\ last.trace.branch = "blend"
    /\ last.args[2][1][1].val # MinPos(last.args[2])
    /\ \E i, j \in 1..Len(last.args[2]) :
          /\ i # j
          /\ last.args[2][i][1] = last.args[2][j][1]
          /\ last.args[2][i][1] = Sorted(last.args[2])[last.trace.i + 1][1]
====
